---- MODULE Spec2Model ----
(***************************************************************************)
(* Model of the email-creation pipeline: the three agents                  *)
(* (GeminiTemplateSelector, GeminiContentGenerator, GeminiHtmlCompiler),   *)
(* the GeminiService calls they make, and EmailOrchestrator.create_email   *)
(* running the two branch tasks on an asyncio event loop.                  *)
(*                                                                         *)
(* Text is a sequence of one-character strings.  Exception messages and    *)
(* content values are sequences of string tokens (concatenation is \o).    *)
(* Progress fractions are in tenths (10 is 1.0).                           *)
(***************************************************************************)
EXTENDS Integers, Sequences, FiniteSets, TLC

VARIABLES
    intent,       \* campaign_intent argument
    available,    \* TemplateService.get_available_templates() of the templates directory
    uargs,        \* arguments of a direct agent call (select_template / generate_content / compile_html)
    upc,          \* position of the directly called agent coroutine
    ures,         \* outcome of the directly called agent coroutine
    task,         \* the two branch tasks of create_email: position and outcome
    ready,        \* event loop: FIFO of handles scheduled with call_soon
    timers,       \* event loop: sleeping coroutines, in deadline order
    ntodo,        \* event loop: handles left to run in the current iteration
    gather,       \* the future returned by asyncio.gather
    mainpc,       \* position of the create_email coroutine
    result,       \* outcome of create_email
    cd,           \* campaign_details dict held in the assistant's state
    pending,      \* local variable html of compile_html across its sleep
    sink,         \* per stage: the status updates delivered, in order
    calls,        \* external capability calls issued, in order
    ext,          \* what each external capability did when it was called
    compile_calls, \* arguments of each invocation of the Compiler stage, in order
    containers,   \* stages that have a display in EmailOrchestrator._status_containers
    assistant     \* EmailAssistant: current_step of its state and the process_prompt call

vars == <<intent, available, uargs, upc, ures, task, ready, timers, ntodo,
          gather, mainpc, result, cd, pending, sink, calls, ext,
          compile_calls, containers, assistant>>

(***************************************************************************)
(* Bounds                                                                  *)
(***************************************************************************)
MaxHtmlLen == 3

(***************************************************************************)
(* Text helpers (str methods used by the code)                             *)
(***************************************************************************)
UpperChars == <<"A","B","C","D","E","F","G","H","I","J","K","L","M",
                "N","O","P","Q","R","S","T","U","V","W","X","Y","Z">>
LowerChars == <<"a","b","c","d","e","f","g","h","i","j","k","l","m",
                "n","o","p","q","r","s","t","u","v","w","x","y","z">>

LowerChar(c) ==
    IF \E i \in 1..Len(UpperChars) : UpperChars[i] = c
    THEN LowerChars[CHOOSE i \in 1..Len(UpperChars) : UpperChars[i] = c]
    ELSE c

\* str.lower()
Lower(s) == [i \in 1..Len(s) |-> LowerChar(s[i])]

IsSpace(c) == c \in {" ", "\n", "\t"}

\* str.strip()
Strip(s) ==
    LET keep == {i \in 1..Len(s) : ~IsSpace(s[i])}
    IN  IF keep = {} THEN <<>>
        ELSE LET lo == CHOOSE i \in keep : \A j \in keep : i <= j
                 hi == CHOOSE i \in keep : \A j \in keep : j <= i
             IN  SubSeq(s, lo, hi)

\* sub in s
Contains(sub, s) ==
    \E i \in 0..(Len(s) - Len(sub)) : SubSeq(s, i + 1, i + Len(sub)) = sub

\* x in list
InSeq(x, list) == \E i \in 1..Len(list) : list[i] = x

Range(f) == {f[x] : x \in DOMAIN f}

MinOf(S) == CHOOSE i \in S : \A j \in S : i <= j

(***************************************************************************)
(* Exceptions (core/exceptions.py): class name and str(e)                  *)
(***************************************************************************)
NoErr == [cls |-> "none", msg |-> <<>>]

Exc(cls, msg) == [cls |-> cls, msg |-> msg]

\* AIServiceError.__init__: str(e) is "<service_name> error: <message>"
AIServiceError(message) == Exc("AIServiceError", <<"Gemini error: ">> \o message)

\* direct base class of each exception class
ExcParent ==
    [EmailCreationError     |-> "Exception",
     ConfigurationError     |-> "EmailCreationError",
     APIKeyError            |-> "ConfigurationError",
     TemplateError          |-> "EmailCreationError",
     TemplateSelectionError |-> "TemplateError",
     TemplateNotFoundError  |-> "TemplateError",
     ContentGenerationError |-> "EmailCreationError",
     EmailCompilationError  |-> "EmailCreationError",
     ContactDataError       |-> "EmailCreationError",
     AIServiceError         |-> "EmailCreationError"]

RECURSIVE IsSubclass(_, _)
IsSubclass(cls, base) ==
    IF cls = base THEN TRUE
    ELSE IF cls \in DOMAIN ExcParent THEN IsSubclass(ExcParent[cls], base)
    ELSE FALSE

Ok(v)   == [ok |-> TRUE,  val |-> v,    err |-> NoErr]
Fail(e) == [ok |-> FALSE, val |-> <<>>, err |-> e]
NoRes   == [ok |-> FALSE, val |-> <<>>, err |-> NoErr]

\* one status update: message tokens and progress in tenths
Upd(m, p) == [msg |-> m, progress |-> p]
ErrUpd(e) == Upd(<<"Error: ">> \o e.msg, 10)

(***************************************************************************)
(* Template names, keyword table, inputs of the template selector          *)
(***************************************************************************)
WelcomeTpl == <<"w", "e", "l", "c", "o", "m", "e", "/", "w", "e", "l", "c", "o", "m", "e", "_", "e", "m", "a", "i", "l", ".", "h", "t", "m", "l">>
LaunchTpl == <<"a", "n", "n", "o", "u", "n", "c", "e", "m", "e", "n", "t", "s", "/", "p", "r", "o", "d", "u", "c", "t", "_", "l", "a", "u", "n", "c", "h", ".", "h", "t", "m", "l">>
NewsTpl == <<"n", "e", "w", "s", "l", "e", "t", "t", "e", "r", "s", "/", "m", "o", "n", "t", "h", "l", "y", "_", "n", "e", "w", "s", "l", "e", "t", "t", "e", "r", ".", "h", "t", "m", "l">>
PromoTpl == <<"p", "r", "o", "m", "o", ".", "h", "t", "m", "l">>

KwWelcome == <<"w", "e", "l", "c", "o", "m", "e">>
KwOnboarding == <<"o", "n", "b", "o", "a", "r", "d", "i", "n", "g">>
KwProductLaunch == <<"p", "r", "o", "d", "u", "c", "t", " ", "l", "a", "u", "n", "c", "h">>
KwAnnouncement == <<"a", "n", "n", "o", "u", "n", "c", "e", "m", "e", "n", "t">>
KwNewsletter == <<"n", "e", "w", "s", "l", "e", "t", "t", "e", "r">>
KwMonthly == <<"m", "o", "n", "t", "h", "l", "y">>

\* template_mapping, in dict insertion order
template_mapping ==
    << [keyword |-> KwWelcome,       mapped |-> WelcomeTpl],
       [keyword |-> KwOnboarding,    mapped |-> WelcomeTpl],
       [keyword |-> KwProductLaunch, mapped |-> LaunchTpl],
       [keyword |-> KwAnnouncement,  mapped |-> LaunchTpl],
       [keyword |-> KwNewsletter,    mapped |-> NewsTpl],
       [keyword |-> KwMonthly,       mapped |-> NewsTpl] >>

IntentWelcome == <<"N", "e", "w", " ", "c", "u", "s", "t", "o", "m", "e", "r", " ", "w", "e", "l", "c", "o", "m", "e">>
IntentLaunch == <<"B", "i", "g", " ", "P", "r", "o", "d", "u", "c", "t", " ", "L", "a", "u", "n", "c", "h">>
IntentMonthlyAnn == <<"m", "o", "n", "t", "h", "l", "y", " ", "a", "n", "n", "o", "u", "n", "c", "e", "m", "e", "n", "t">>
IntentWelcomeLaunch == <<"W", "e", "l", "c", "o", "m", "e", " ", "t", "o", " ", "o", "u", "r", " ", "P", "r", "o", "d", "u", "c", "t", " ", "L", "a", "u", "n", "c", "h">>
IntentOther == <<"h", "e", "l", "l", "o">>

Intents ==
    {IntentWelcome, IntentLaunch, IntentMonthlyAnn, IntentWelcomeLaunch, IntentOther, <<>>}

\* listings of the templates directory, and candidate lists passed directly
TemplateLists ==
    { <<>>,
      <<WelcomeTpl>>,
      <<WelcomeTpl, LaunchTpl>>,
      <<PromoTpl, NewsTpl>>,
      <<NewsTpl, LaunchTpl, WelcomeTpl, PromoTpl>> }

GuessLaunchPadded == <<" ", "a", "n", "n", "o", "u", "n", "c", "e", "m", "e", "n", "t", "s", "/", "p", "r", "o", "d", "u", "c", "t", "_", "l", "a", "u", "n", "c", "h", ".", "h", "t", "m", "l", "\n">>
GuessPromoWord == <<"P", "R", "O", "M", "O">>
GuessUnrelated == <<"b", "e", "s", "t", " ", "o", "n", "e">>
GuessLong == <<"t", "e", "m", "p", "l", "a", "t", "e", "s", "/", "p", "r", "o", "m", "o", ".", "h", "t", "m", "l">>
GuessBlank == <<" ", "\n">>

\* what client.models.generate_content does for the template prompt:
\* it raises, or returns a response whose .text is None or some free text
ChooserOutcomes ==
    { [kind |-> "raise", text |-> <<"provider: quota exceeded">>],
      [kind |-> "none",  text |-> <<>>] }
    \cup { [kind |-> "text", text |-> t] :
             t \in {WelcomeTpl, GuessLaunchPadded, GuessPromoWord, GuessUnrelated,
                    GuessLong, GuessBlank, <<>>} }

(***************************************************************************)
(* GeminiService.select_template                                           *)
(***************************************************************************)
AiSelectTemplate(ch) ==
    CASE ch.kind = "raise" ->
           Fail(AIServiceError(<<"Template selection failed: ">> \o ch.text))
      [] ch.kind = "none" ->
           Fail(AIServiceError(<<"Template selection failed: ",
                                 "'NoneType' object has no attribute 'strip'">>))
      [] OTHER -> Ok(Strip(ch.text))

(***************************************************************************)
(* GeminiTemplateSelector.select_template                                  *)
(***************************************************************************)
\* variant: the keyword step takes the mapped template without looking it up
\* in the candidate list
ResolveTemplate_Unchecked(template, campaign_intent, templates) ==
    IF InSeq(template, templates) THEN template
    ELSE
      LET hits == {i \in 1..Len(template_mapping) :
                     Contains(Lower(template_mapping[i].keyword), Lower(campaign_intent))}
          close == {j \in 1..Len(templates) :
                     Contains(Lower(template), Lower(templates[j]))}
      IN  IF hits # {} THEN template_mapping[MinOf(hits)].mapped
          ELSE IF close # {} THEN templates[MinOf(close)]
          ELSE templates[1]

\* variant: the last matching row of the keyword table wins
ResolveTemplate_LastKeyword(template, campaign_intent, templates) ==
    IF InSeq(template, templates) THEN template
    ELSE
      LET hits == {i \in 1..Len(template_mapping) :
                     /\ Contains(Lower(template_mapping[i].keyword), Lower(campaign_intent))
                     /\ InSeq(template_mapping[i].mapped, templates)}
          close == {j \in 1..Len(templates) :
                     Contains(Lower(template), Lower(templates[j]))}
      IN  IF hits # {} THEN template_mapping[CHOOSE i \in hits : \A k \in hits : k <= i].mapped
          ELSE IF close # {} THEN templates[MinOf(close)]
          ELSE templates[1]

\* variant: the containment step is tried before the keyword table
ResolveTemplate_FuzzyFirst(template, campaign_intent, templates) ==
    IF InSeq(template, templates) THEN template
    ELSE
      LET hits == {i \in 1..Len(template_mapping) :
                     /\ Contains(Lower(template_mapping[i].keyword), Lower(campaign_intent))
                     /\ InSeq(template_mapping[i].mapped, templates)}
          close == {j \in 1..Len(templates) :
                     Contains(Lower(template), Lower(templates[j]))}
      IN  IF close # {} THEN templates[MinOf(close)]
          ELSE IF hits # {} THEN template_mapping[MinOf(hits)].mapped
          ELSE templates[1]

\* the resolution of the chooser's answer against the candidate list
ResolveTemplate(template, campaign_intent, templates) ==
    IF InSeq(template, templates) THEN template
    ELSE
      LET hits == {i \in 1..Len(template_mapping) :
                     /\ Contains(Lower(template_mapping[i].keyword), Lower(campaign_intent))
                     /\ InSeq(template_mapping[i].mapped, templates)}
          close == {j \in 1..Len(templates) :
                     Contains(Lower(template), Lower(templates[j]))}
      IN  IF hits # {} THEN template_mapping[MinOf(hits)].mapped
          ELSE IF close # {} THEN templates[MinOf(close)]
          ELSE templates[1]

\* first part of the coroutine, up to asyncio.sleep
SelectTemplateSeg1 == <<Upd(<<"Analyzing campaign intent">>, 3)>>

\* the except clause of select_template
SelectTemplateExcept(e, ups, cs) ==
    [res   |-> Fail(Exc("TemplateSelectionError",
                        <<"Template selection failed: ">> \o e.msg)),
     ups   |-> ups \o <<ErrUpd(e)>>,
     calls |-> cs]

\* variant: the chooser is asked before the candidate list is checked
SelectTemplateSeg2_LateCheck(campaign_intent, templatesIn, listing, ch) ==
    LET templates == IF templatesIn = <<>> THEN listing ELSE templatesIn
        ups1 == <<Upd(<<"Evaluating templates">>, 6)>>
        cs1  == <<"chooseTemplate">>
        ai   == AiSelectTemplate(ch)
    IN  IF ~ai.ok THEN SelectTemplateExcept(ai.err, ups1, cs1)
        ELSE IF templates = <<>>
        THEN SelectTemplateExcept(
                 Exc("TemplateSelectionError", <<"No templates available">>), ups1, cs1)
        ELSE IF ai.val = <<>>
        THEN SelectTemplateExcept(
                 Exc("TemplateSelectionError", <<"No suitable template found">>),
                 ups1, cs1)
        ELSE [res   |-> Ok(ResolveTemplate(ai.val, campaign_intent, templates)),
              ups   |-> ups1 \o <<Upd(<<"Template selected">>, 10)>>,
              calls |-> cs1]

\* variant: a chooser call that raised is issued a second time
SelectTemplateSeg2_Retry(campaign_intent, templatesIn, listing, ch) ==
    LET templates == IF templatesIn = <<>> THEN listing ELSE templatesIn
    IN  IF templates = <<>>
        THEN SelectTemplateExcept(
                 Exc("TemplateSelectionError", <<"No templates available">>), <<>>, <<>>)
        ELSE
          LET ups1 == <<Upd(<<"Evaluating templates">>, 6)>>
              cs1  == <<"chooseTemplate">>
              ai   == AiSelectTemplate(ch)
          IN  IF ~ai.ok THEN SelectTemplateExcept(ai.err, ups1, cs1 \o cs1)
              ELSE IF ai.val = <<>>
              THEN SelectTemplateExcept(
                       Exc("TemplateSelectionError", <<"No suitable template found">>),
                       ups1, cs1)
              ELSE [res   |-> Ok(ResolveTemplate(ai.val, campaign_intent, templates)),
                    ups   |-> ups1 \o <<Upd(<<"Template selected">>, 10)>>,
                    calls |-> cs1]

\* the rest of the coroutine after the sleep; ch is what the chooser does if called
SelectTemplateSeg2(campaign_intent, templatesIn, listing, ch) ==
    LET templates == IF templatesIn = <<>> THEN listing ELSE templatesIn
    IN  IF templates = <<>>
        THEN SelectTemplateExcept(
                 Exc("TemplateSelectionError", <<"No templates available">>), <<>>, <<>>)
        ELSE
          LET ups1 == <<Upd(<<"Evaluating templates">>, 6)>>
              cs1  == <<"chooseTemplate">>
              ai   == AiSelectTemplate(ch)
          IN  IF ~ai.ok THEN SelectTemplateExcept(ai.err, ups1, cs1)
              ELSE IF ai.val = <<>>
              THEN SelectTemplateExcept(
                       Exc("TemplateSelectionError", <<"No suitable template found">>),
                       ups1, cs1)
              ELSE [res   |-> Ok(ResolveTemplate(ai.val, campaign_intent, templates)),
                    ups   |-> ups1 \o <<Upd(<<"Template selected">>, 10)>>,
                    calls |-> cs1]

(***************************************************************************)
(* Content fields, external text and image outcomes                        *)
(***************************************************************************)
\* required_fields / required_keys, in the order the code lists them
RequiredOrder ==
    <<"subject", "preheader", "headline", "subheadline", "welcome_message",
      "company_name", "feature1_title", "feature1_text", "feature2_title",
      "feature2_text", "highlight_title", "highlight_text", "cta_headline",
      "cta_text">>

RequiredFields == Range(RequiredOrder)

\* keys written by _generate_email_images, in call order
ImageKeys == <<"HERO_IMAGE", "FEATURE1_IMAGE", "FEATURE2_IMAGE", "HIGHLIGHT_IMAGE">>

\* the fallback returned by generate_image
Placeholder == <<"https://via.placeholder.com/500x300">>

\* base64.b64encode(image_bytes).decode('utf-8') of the image bytes used here
B64 == [png1 |-> "cG5nMQ==", png2 |-> "cG5nMg=="]

\* what client.models.generate_images does for one prompt: it raises or
\* returns image bytes
ImageOutcomes ==
    { [kind |-> "raise", bytes |-> "png1"],
      [kind |-> "bytes", bytes |-> "png1"],
      [kind |-> "bytes", bytes |-> "png2"] }

\* JSON values: kind, the required keys k for which "k in value" is True, and
\* the mapping when the value is an object
JsonObj(d) == [k |-> "obj", has |-> DOMAIN d, d |-> d]
JsonOther(kind, has) == [k |-> kind, has |-> has, d |-> <<>>]

FullDict == [f \in RequiredFields |-> <<"text of " \o f>>]
ExtraDict == [f \in RequiredFields \cup {"cta_url", "HERO_IMAGE"} |-> <<"text of " \o f>>]
PartialDict == [f \in RequiredFields \ {"cta_text"} |-> <<"text of " \o f>>]
SparseDict ==
    [f \in RequiredFields \ {"subject", "preheader", "cta_text"} |-> <<"text of " \o f>>]
EmptyDict == [f \in {} |-> <<>>]

\* lines of a response text: blank, a code fence with or without a language
\* tag, prose, or a JSON value
LBlank   == [t |-> "blank", v |-> JsonOther("null", {})]
LOpen    == [t |-> "fence_json", v |-> JsonOther("null", {})]
LFence   == [t |-> "fence", v |-> JsonOther("null", {})]
LProse   == [t |-> "prose", v |-> JsonOther("null", {})]
LJson(v) == [t |-> "json", v |-> v]
\* a fence marker and a JSON value on the same line: the opening marker (and
\* tag) before the value, the closing marker after it, or both
LOpenJson(v)  == [t |-> "fence_then_json", v |-> v]
LJsonClose(v) == [t |-> "json_then_fence", v |-> v]
LWrapped(v)   == [t |-> "fence_json_fence", v |-> v]

\* response texts of the content prompt, by name
ResponseTexts ==
    [ plain_full     |-> <<LJson(JsonObj(FullDict))>>,
      fenced_full    |-> <<LBlank, LOpen, LJson(JsonObj(FullDict)), LFence, LBlank>>,
      fenced_extra   |-> <<LFence, LJson(JsonObj(ExtraDict)), LFence>>,
      open_only      |-> <<LOpen, LJson(JsonObj(FullDict))>>,
      close_only     |-> <<LJson(JsonObj(FullDict)), LFence>>,
      fence_alone    |-> <<LFence>>,
      fence_pair     |-> <<LOpen, LFence>>,
      prose_then     |-> <<LProse, LJson(JsonObj(FullDict))>>,
      partial        |-> <<LJson(JsonObj(PartialDict))>>,
      fenced_partial |-> <<LOpen, LJson(JsonObj(PartialDict)), LFence>>,
      sparse         |-> <<LJson(JsonObj(SparseDict))>>,
      array          |-> <<LJson(JsonOther("arr", {}))>>,
      array_of_keys  |-> <<LJson(JsonOther("arr", RequiredFields))>>,
      string_of_keys |-> <<LJson(JsonOther("str", RequiredFields))>>,
      number         |-> <<LJson(JsonOther("num", {}))>>,
      null           |-> <<LJson(JsonOther("null", {}))>>,
      one_line       |-> <<LWrapped(JsonObj(FullDict))>>,
      open_inline    |-> <<LOpenJson(JsonObj(FullDict)), LFence>>,
      close_inline   |-> <<LOpen, LJsonClose(JsonObj(FullDict))>>,
      empty          |-> <<>>,
      blank          |-> <<LBlank>> ]

\* what client.models.generate_content does for the content prompt
TextOutcomes ==
    { [kind |-> "raise", exc |-> "ConnectionError", raw |-> "provider: network down"],
      [kind |-> "raise", exc |-> "ValueError",      raw |-> "provider: bad request"],
      [kind |-> "none",  exc |-> "",                raw |-> ""] }
    \cup { [kind |-> "text", exc |-> "", raw |-> n] : n \in DOMAIN ResponseTexts }

(***************************************************************************)
(* GeminiService.generate_email_content                                    *)
(***************************************************************************)
\* text.strip(), on lines
StripLines(ls) ==
    LET keep == {i \in 1..Len(ls) : ls[i].t # "blank"}
    IN  IF keep = {} THEN <<>>
        ELSE SubSeq(ls, MinOf(keep), CHOOSE i \in keep : \A j \in keep : j <= i)

\* text.startswith(fence), text.endswith(fence)
StartsWithFence(ls) ==
    Len(ls) > 0 /\ ls[1].t \in {"fence_json", "fence", "fence_then_json", "fence_json_fence"}
EndsWithFence(ls) ==
    Len(ls) > 0 /\ ls[Len(ls)].t \in {"fence", "json_then_fence", "fence_json_fence"}

\* text.rsplit(newline, 1)[0]
DropLastLine(ls) == IF Len(ls) >= 2 THEN SubSeq(ls, 1, Len(ls) - 1) ELSE ls

NonBlank(ls) == SelectSeq(ls, LAMBDA l : l.t # "blank")

\* json.loads succeeds exactly on one JSON value surrounded by whitespace
JsonLoadsOk(ls) == Len(NonBlank(ls)) = 1 /\ NonBlank(ls)[1].t = "json"
JsonLoads(ls)   == NonBlank(ls)[1].v

\* lines 164-170: the first line is removed when the text starts with the
\* fence marker, then the last line when what is left ends with it;
\* text.split(newline, 1)[1] raises IndexError on a text of one line
CleanText(ls) ==
    LET t0 == StripLines(ls)
    IN  IF StartsWithFence(t0) /\ Len(t0) = 1
        THEN Fail(Exc("IndexError", <<"list index out of range">>))
        ELSE LET t1 == IF StartsWithFence(t0) THEN Tail(t0) ELSE t0
             IN  Ok(IF EndsWithFence(t1) THEN DropLastLine(t1) ELSE t1)

\* iteration orders of a set of str: the order depends on the hash seed of
\* the interpreter, so a run may list the elements of S in any order.  The
\* response texts above miss at most three required keys, which keeps the
\* orders of every missing set enumerable
SetOrders(S) ==
    {o \in [1..Cardinality(S) -> S] : \A i, j \in 1..Cardinality(S) : o[i] = o[j] => i = j}

\* str(required_keys - set(content.keys())): the missing keys, in the
\* iteration order of this run
MissingTokens(has, order) == SelectSeq(order, LAMBDA f : f \notin has)

ParseError(detail, raw) ==
    Exc("ContentGenerationError",
        <<"Error parsing Gemini response: ">> \o detail \o <<". Raw response: ", raw>>)

\* the checks after json.loads
AiCheckContent(content, raw, order) ==
    IF content.k \in {"num", "null"}
    THEN Fail(AIServiceError(<<"Content generation failed: ",
                               "argument of type is not iterable">>))
    ELSE IF RequiredFields \subseteq content.has THEN Ok(content)
    ELSE IF content.k = "obj"
    THEN Fail(ParseError(<<"Missing required content fields: ">>
                             \o MissingTokens(content.has, order), raw))
    ELSE Fail(AIServiceError(<<"Content generation failed: ",
                               "object has no attribute 'keys'">>))

AiGenerateEmailContent(tc, order) ==
    CASE tc.kind = "raise" /\ tc.exc = "ValueError" ->
           \* the handler of (JSONDecodeError, ValueError) reads response.text,
           \* which is unbound when the call itself raised
           Fail(Exc("UnboundLocalError",
                    <<"cannot access local variable 'response'">>))
      [] tc.kind = "raise" /\ tc.exc # "ValueError" ->
           Fail(AIServiceError(<<"Content generation failed: ", tc.raw>>))
      [] tc.kind = "none" ->
           Fail(AIServiceError(<<"Content generation failed: ",
                                 "'NoneType' object has no attribute 'strip'">>))
      [] OTHER ->
           LET text == CleanText(ResponseTexts[tc.raw])
           IN  IF ~text.ok
               THEN Fail(AIServiceError(<<"Content generation failed: ">> \o text.err.msg))
               ELSE IF ~JsonLoadsOk(text.val)
               THEN Fail(ParseError(<<"JSONDecodeError">>, tc.raw))
               ELSE AiCheckContent(JsonLoads(text.val), tc.raw, order)

\* the required keys the code finds missing in the JSON object of a response
\* text, when it gets to listing them
MissingKeys(tc) ==
    IF tc.kind # "text" THEN {}
    ELSE LET text == CleanText(ResponseTexts[tc.raw])
         IN  IF text.ok /\ JsonLoadsOk(text.val) /\ JsonLoads(text.val).k = "obj"
             THEN RequiredFields \ JsonLoads(text.val).has
             ELSE {}

(***************************************************************************)
(* GeminiService.generate_image                                            *)
(***************************************************************************)
\* variant: the generated image is dropped and the fallback returned
GenerateImage_AlwaysFallback(io) == Placeholder

GenerateImage(io) ==
    IF io.kind = "bytes" THEN <<"data:image/png;base64,", B64[io.bytes]>>
    ELSE Placeholder

(***************************************************************************)
(* GeminiContentGenerator.generate_content                                 *)
(***************************************************************************)
\* variant: the highlight image is not generated
GenerateEmailImages_NoHighlight(ios) ==
    [key \in Range(ImageKeys) \ {"HIGHLIGHT_IMAGE"} |->
        GenerateImage(ios[CHOOSE i \in 1..Len(ImageKeys) : ImageKeys[i] = key])]

\* variant: the two feature images are generated in the opposite order
GenerateEmailImages_Swapped(ios) ==
    [key \in Range(ImageKeys) |->
        GenerateImage(ios[CASE key = "FEATURE1_IMAGE" -> 3
                            [] key = "FEATURE2_IMAGE" -> 2
                            [] OTHER -> CHOOSE i \in 1..Len(ImageKeys) : ImageKeys[i] = key])]

\* _generate_email_images: ios[i] is what the i-th image call does
GenerateEmailImages(ios) ==
    [key \in Range(ImageKeys) |->
        GenerateImage(ios[CHOOSE i \in 1..Len(ImageKeys) : ImageKeys[i] = key])]

ImageCalls == [i \in 1..Len(ImageKeys) |-> "generateImage"]

\* variant: the update is lost
MergeDicts_LeftOnly(a, b) == a

\* {**content, **images}
MergeDicts(a, b) ==
    [key \in DOMAIN a \cup DOMAIN b |-> IF key \in DOMAIN b THEN b[key] ELSE a[key]]

\* variant: the first update reports more progress than the second one
GenerateContentSeg1_Ahead == <<Upd(<<"Analyzing contact data">>, 4)>>

\* first part of the coroutine, up to asyncio.sleep
GenerateContentSeg1 == <<Upd(<<"Analyzing contact data">>, 1)>>

\* variant: the except clause re-raises the exception as it is
GenerateContentExcept_Reraise(e, ups, cs) ==
    [res   |-> Fail(e),
     ups   |-> ups \o <<ErrUpd(e)>>,
     calls |-> cs]

GenerateContentExcept(e, ups, cs) ==
    [res   |-> Fail(Exc("ContentGenerationError",
                        <<"Content generation failed: ">> \o e.msg)),
     ups   |-> ups \o <<ErrUpd(e)>>,
     calls |-> cs]

\* variant: whatever JSON object the text call returned is accepted, without
\* the required-field checks
GenerateContentSeg2_NoValidation(tc, ios, order) ==
    LET ups1  == <<Upd(<<"Generating text content">>, 3)>>
        cs1   == <<"generateStructuredContent">>
        lines == IF tc.kind = "text" THEN StripLines(ResponseTexts[tc.raw]) ELSE <<>>
    IN  IF tc.kind # "text" \/ ~JsonLoadsOk(lines)
        THEN GenerateContentExcept(
                 Exc("ContentGenerationError", <<"Failed to generate content">>), ups1, cs1)
        ELSE IF JsonLoads(lines).k # "obj"
        THEN GenerateContentExcept(
                 Exc("ContentGenerationError", <<"Failed to generate content">>), ups1, cs1)
        ELSE [res   |-> Ok(MergeDicts(JsonLoads(lines).d, GenerateEmailImages(ios))),
              ups   |-> ups1 \o <<Upd(<<"Generating images">>, 5),
                                  Upd(<<"Content ready">>, 10)>>,
              calls |-> cs1 \o ImageCalls]

\* the rest of the coroutine after the sleep
GenerateContentSeg2(tc, ios, order) ==
    LET ups1 == <<Upd(<<"Generating text content">>, 3)>>
        cs1  == <<"generateStructuredContent">>
        ai   == AiGenerateEmailContent(tc, order)
    IN  IF ~ai.ok THEN GenerateContentExcept(ai.err, ups1, cs1)
        ELSE IF ai.val.k = "obj" /\ DOMAIN ai.val.d = {}
        THEN GenerateContentExcept(
                 Exc("ContentGenerationError", <<"Failed to generate content">>), ups1, cs1)
        ELSE IF ai.val.k # "obj"
        THEN GenerateContentExcept(
                 Exc("AttributeError", <<"object has no attribute 'keys'">>), ups1, cs1)
        ELSE IF RequiredFields \ DOMAIN ai.val.d # {}
        THEN GenerateContentExcept(
                 Exc("ContentGenerationError",
                     <<"Missing required content fields: ">>
                         \o MissingTokens(DOMAIN ai.val.d, order)), ups1, cs1)
        ELSE [res   |-> Ok(MergeDicts(ai.val.d, GenerateEmailImages(ios))),
              ups   |-> ups1 \o <<Upd(<<"Generating images">>, 5),
                                  Upd(<<"Content ready">>, 10)>>,
              calls |-> cs1 \o ImageCalls]

(***************************************************************************)
(* TemplateService.render_template and GeminiHtmlCompiler.compile_html     *)
(***************************************************************************)
HtmlChars == {"<", ">", " "}

\* texts of at most MaxHtmlLen characters
HtmlTexts == UNION {[1..n -> HtmlChars] : n \in 0..MaxHtmlLen}

\* what the rendering engine does: it raises, or returns a text
RenderOutcomes ==
    {[kind |-> "raise", text |-> <<>>]} \cup {[kind |-> "text", text |-> t] : t \in HtmlTexts}

\* render_template: the engine's text, or TemplateError naming the template
RenderTemplate(template_name, ro) ==
    IF ro.kind = "raise"
    THEN Fail(Exc("TemplateError",
                  <<"Error rendering template ">> \o template_name
                      \o <<": ", "engine error">>))
    ELSE Ok(ro.text)

\* content keys each image prompt interpolates, in interpolation order
PromptKeys ==
    << <<"company_name", "welcome_message">>,
       <<"feature1_title", "feature1_text">>,
       <<"feature2_title", "feature2_text">>,
       <<"highlight_title", "highlight_text">> >>

PromptOk(content, i) == \A j \in 1..Len(PromptKeys[i]) : PromptKeys[i][j] \in DOMAIN content

\* the key whose lookup raises KeyError while building prompt i
PromptMissing(content, i) ==
    PromptKeys[i][MinOf({j \in 1..Len(PromptKeys[i]) : PromptKeys[i][j] \notin DOMAIN content})]

\* variant: the except clause re-raises the exception as it is
CompileHtmlExcept_Reraise(e, ups, cs) ==
    [done  |-> TRUE,
     res   |-> Fail(e),
     html  |-> <<>>,
     ups   |-> ups \o <<ErrUpd(e)>>,
     calls |-> cs]

\* the except clause of compile_html
CompileHtmlExcept(e, ups, cs) ==
    [done  |-> TRUE,
     res   |-> Fail(Exc("EmailCompilationError",
                        <<"Email compilation failed: ">> \o e.msg)),
     html  |-> <<>>,
     ups   |-> ups \o <<ErrUpd(e)>>,
     calls |-> cs]

\* compile_html up to its asyncio.sleep: image generation and rendering
CompileHtmlSeg1(template, content, ro) ==
    LET ups0 == <<Upd(<<"Generating images">>, 3)>>
        bad  == {i \in 1..Len(PromptKeys) : ~PromptOk(content, i)}
    IN  IF bad # {}
        THEN CompileHtmlExcept(Exc("KeyError", <<PromptMissing(content, MinOf(bad))>>),
                               ups0, SubSeq(ImageCalls, 1, MinOf(bad) - 1))
        ELSE
          LET ups1 == ups0 \o <<Upd(<<"Processing template">>, 6)>>
              cs1  == ImageCalls \o <<"renderTemplate">>
              r    == RenderTemplate(template, ro)
          IN  IF ~r.ok THEN CompileHtmlExcept(r.err, ups1, cs1)
              ELSE IF r.val = <<>>
              THEN CompileHtmlExcept(
                       Exc("EmailCompilationError", <<"Failed to generate HTML">>), ups1, cs1)
              ELSE [done  |-> FALSE,
                    res   |-> NoRes,
                    html  |-> r.val,
                    ups   |-> ups1 \o <<Upd(<<"Compiling final email">>, 9)>>,
                    calls |-> cs1]

\* variant: the check is made on the untrimmed text
LooksLikeHtml_NoStrip(html) ==
    Len(html) > 0 /\ html[1] = "<" /\ html[Len(html)] = ">"

\* html.strip().startswith('<') and html.strip().endswith('>')
LooksLikeHtml(html) ==
    LET t == Strip(html)
    IN  Len(t) > 0 /\ t[1] = "<" /\ t[Len(t)] = ">"

\* variant: the trimmed text is returned instead of the rendered one
CompileHtmlSeg2_Trimmed(html) ==
    IF ~LooksLikeHtml(html)
    THEN CompileHtmlExcept(
             Exc("EmailCompilationError", <<"Generated HTML appears to be invalid">>),
             <<>>, <<>>)
    ELSE [done  |-> TRUE,
          res   |-> Ok(Strip(html)),
          html  |-> html,
          ups   |-> <<Upd(<<"Email ready">>, 10)>>,
          calls |-> <<>>]

\* compile_html after the sleep: the structural check
CompileHtmlSeg2(html) ==
    IF ~LooksLikeHtml(html)
    THEN CompileHtmlExcept(
             Exc("EmailCompilationError", <<"Generated HTML appears to be invalid">>),
             <<>>, <<>>)
    ELSE [done  |-> TRUE,
          res   |-> Ok(html),
          html  |-> html,
          ups   |-> <<Upd(<<"Email ready">>, 10)>>,
          calls |-> <<>>]

(***************************************************************************)
(* Status sink: Agent.update_status through the registered callback, and   *)
(* EmailOrchestrator._update_status_display                                *)
(***************************************************************************)
Stages == {"template", "content", "compilation"}

\* a sink that shows every update, registered or not
Deliver_Unchecked(sk, stage, ups) == [sk EXCEPT ![stage] = @ \o ups]

\* _update_status_display: "if agent_name in self._status_containers:" then
\* the text and the progress are shown; otherwise nothing happens
Deliver(sk, stage, ups) ==
    IF stage \in containers THEN [sk EXCEPT ![stage] = @ \o ups] ELSE sk

\* EmailAssistant.initialize_session_state; no process_prompt call is running
MaxPrompts == 3
\* (pc), no contacts are loaded, create_email has been invoked "created"
\* times, "prompts" prompts have been processed and "last" is the branch the
\* latest one took
NewSession ==
    [current_step |-> "welcome", pc |-> "idle", contacts |-> FALSE,
     created |-> 0, prompts |-> 0, last |-> "none"]
\* create_email called on its own, outside process_prompt
NoPrompt == [NewSession EXCEPT !.pc = "none"]

\* process_prompt after "await self.orchestrator.create_email(...)", whatever
\* the outcome: the except clauses only report, then
\* self.update_state(current_step="feedback")
AfterCreateEmail_RetryOnFailure(a, res) ==
    IF a.pc = "awaiting"
    THEN [a EXCEPT !.current_step = IF res.ok THEN "feedback" ELSE "welcome",
                   !.pc = "idle"]
    ELSE a

AfterCreateEmail(a, res) ==
    IF a.pc = "awaiting"
    THEN [a EXCEPT !.current_step = "feedback", !.pc = "idle"]
    ELSE a

\* process_prompt stores result.get("template" / "content" / "html") in
\* state["campaign_details"] when create_email returned
StoreResult(a, details, res) ==
    IF a.pc = "awaiting"
    THEN MergeDicts(details, [template |-> res.template, content |-> res.content,
                              html |-> res.html])
    ELSE details

EmptySink == [st \in Stages |-> <<>>]

(***************************************************************************)
(* Direct calls of the three agent coroutines                              *)
(***************************************************************************)
\* no external capability has been called yet
NoExt ==
    [chooser |-> [kind |-> "not_called", text |-> <<>>],
     text    |-> [kind |-> "not_called", exc |-> "", raw |-> ""],
     order   |-> <<>>,
     images  |-> <<>>,
     cimages |-> <<>>,
     render  |-> [kind |-> "not_called", text |-> <<>>]]

\* callback: whether the caller registered one with set_status_callback
NoArgs ==
    [fn |-> "none", templates |-> <<>>, template |-> <<>>, content |-> EmptyDict,
     callback |-> FALSE]

\* Agent.update_status in a direct call: "if self._status_callback:" the
\* registered callback gets the update, here one that records it
UpdateStatus(sk, stage, ups) ==
    IF uargs.callback THEN [sk EXCEPT ![stage] = @ \o ups] ELSE sk

PipelineIdle ==
    /\ task = [b \in {"template", "content"} |-> [pc |-> "none", res |-> NoRes]]
    /\ ready = <<>>
    /\ timers = <<>>
    /\ ntodo = 0
    /\ gather = [nfinished |-> 0, outer |-> "none", exc |-> NoErr, retrieved |-> {}]
    /\ mainpc = "none"
    /\ result = NoRes
    /\ cd = EmptyDict
    /\ compile_calls = <<>>
    /\ containers = {}
    /\ assistant = NoPrompt

pipelineVars == <<task, ready, timers, ntodo, gather, mainpc, result, cd, compile_calls,
                  containers, assistant>>

\* ---- select_template(campaign_intent, templates) ----
InitSelect ==
    /\ intent \in Intents
    /\ available \in TemplateLists
    /\ \E ts \in TemplateLists, cb \in BOOLEAN :
          uargs = [NoArgs EXCEPT !.fn = "select_template", !.templates = ts,
                                 !.callback = cb]
    /\ upc = "start"
    /\ ures = NoRes
    /\ pending = <<>>
    /\ sink = EmptySink
    /\ calls = <<>>
    /\ ext = NoExt
    /\ PipelineIdle

SelectStart ==
    /\ uargs.fn = "select_template"
    /\ upc = "start"
    /\ upc' = "sleeping"
    /\ sink' = UpdateStatus(sink, "template", SelectTemplateSeg1)
    /\ UNCHANGED <<intent, available, containers, assistant, uargs, ures, pending, calls, ext>>
    /\ UNCHANGED pipelineVars

SelectResume ==
    /\ uargs.fn = "select_template"
    /\ upc = "sleeping"
    /\ \E ch \in ChooserOutcomes :
         LET r == SelectTemplateSeg2(intent, uargs.templates, available, ch)
         IN  /\ ures' = r.res
             /\ sink' = UpdateStatus(sink, "template", r.ups)
             /\ calls' = calls \o r.calls
             /\ ext' = IF r.calls = <<>> THEN ext ELSE [ext EXCEPT !.chooser = ch]
    /\ upc' = "done"
    /\ UNCHANGED <<intent, available, containers, assistant, uargs, pending>>
    /\ UNCHANGED pipelineVars

NextSelect == SelectStart \/ SelectResume

SpecSelect == InitSelect /\ [][NextSelect]_vars

\* ---- generate_content(contact, campaign_purpose) ----
InitGenerate ==
    /\ intent \in Intents
    /\ available = <<>>
    /\ \E cb \in BOOLEAN :
          uargs = [NoArgs EXCEPT !.fn = "generate_content", !.callback = cb]
    /\ upc = "start"
    /\ ures = NoRes
    /\ pending = <<>>
    /\ sink = EmptySink
    /\ calls = <<>>
    /\ ext = NoExt
    /\ PipelineIdle

GenerateStart ==
    /\ uargs.fn = "generate_content"
    /\ upc = "start"
    /\ upc' = "sleeping"
    /\ sink' = UpdateStatus(sink, "content", GenerateContentSeg1)
    /\ UNCHANGED <<intent, available, containers, assistant, uargs, ures, pending, calls, ext>>
    /\ UNCHANGED pipelineVars

GenerateResume ==
    /\ uargs.fn = "generate_content"
    /\ upc = "sleeping"
    /\ \E tc \in TextOutcomes, ios \in [1..Len(ImageKeys) -> ImageOutcomes] :
       \E order \in SetOrders(MissingKeys(tc)) :
         LET r == GenerateContentSeg2(tc, ios, order)
         IN  /\ ures' = r.res
             /\ sink' = UpdateStatus(sink, "content", r.ups)
             /\ calls' = calls \o r.calls
             /\ ext' = [ext EXCEPT !.text = tc,
                                    !.order = order,
                                    !.images = IF "generateImage" \in Range(r.calls)
                                               THEN ios ELSE <<>>]
    /\ upc' = "done"
    /\ UNCHANGED <<intent, available, containers, assistant, uargs, pending>>
    /\ UNCHANGED pipelineVars

NextGenerate == GenerateStart \/ GenerateResume

SpecGenerate == InitGenerate /\ [][NextGenerate]_vars

\* ---- compile_html(template, content) ----
\* a ContentMap as generate_content returns it
GoodContent ==
    MergeDicts(FullDict, [key \in Range(ImageKeys) |-> Placeholder])

CompileContents ==
    { GoodContent,
      FullDict,
      PartialDict,
      [f \in RequiredFields \ {"feature2_text"} |-> <<"text of " \o f>>],
      EmptyDict }

InitCompile ==
    /\ intent = <<>>
    /\ available = <<>>
    /\ \E t \in {WelcomeTpl, PromoTpl}, c \in CompileContents, cb \in BOOLEAN :
          uargs = [NoArgs EXCEPT !.fn = "compile_html", !.template = t, !.content = c,
                                 !.callback = cb]
    /\ upc = "start"
    /\ ures = NoRes
    /\ pending = <<>>
    /\ sink = EmptySink
    /\ calls = <<>>
    /\ ext = NoExt
    /\ PipelineIdle

CompileStart ==
    /\ uargs.fn = "compile_html"
    /\ upc = "start"
    /\ \E ro \in RenderOutcomes, ios \in [1..Len(ImageKeys) -> ImageOutcomes] :
         LET r == CompileHtmlSeg1(uargs.template, uargs.content, ro)
             n == Len(SelectSeq(r.calls, LAMBDA c : c = "generateImage"))
         IN  /\ upc' = IF r.done THEN "done" ELSE "sleeping"
             /\ ures' = r.res
             /\ pending' = r.html
             /\ sink' = UpdateStatus(sink, "compilation", r.ups)
             /\ calls' = calls \o r.calls
             /\ ext' = [ext EXCEPT !.cimages = SubSeq(ios, 1, n),
                                   !.render = IF "renderTemplate" \in Range(r.calls)
                                              THEN ro ELSE @]
    /\ UNCHANGED <<intent, available, containers, assistant, uargs>>
    /\ UNCHANGED pipelineVars

CompileResume ==
    /\ uargs.fn = "compile_html"
    /\ upc = "sleeping"
    /\ LET r == CompileHtmlSeg2(pending)
       IN  /\ ures' = r.res
           /\ sink' = UpdateStatus(sink, "compilation", r.ups)
    /\ upc' = "done"
    /\ UNCHANGED <<intent, available, containers, assistant, uargs, pending, calls, ext>>
    /\ UNCHANGED pipelineVars

NextCompile == CompileStart \/ CompileResume

SpecCompile == InitCompile /\ [][NextCompile]_vars

\* ---- any one of the three agent coroutines, called directly ----
InitAgents == InitSelect \/ InitGenerate \/ InitCompile

NextAgents == NextSelect \/ NextGenerate \/ NextCompile

SpecAgents == InitAgents /\ [][NextAgents]_vars

(***************************************************************************)
(* EmailOrchestrator: the stage wrappers                                   *)
(***************************************************************************)
\* the except clause of _select_template / _generate_content / _compile_html:
\* a status update on the stage's display and a re-raise as EmailCreationError
WrapperExcept(prefix, e) ==
    [err |-> Exc("EmailCreationError", <<prefix>> \o e.msg),
     ups |-> <<ErrUpd(e)>>]

SelectPrefix  == "Template selection failed: "
ContentPrefix == "Content generation failed: "
CompilePrefix == "HTML compilation failed: "

\* the stage named by the message of an error the orchestrator raises
StageOfError(e) ==
    CASE Len(e.msg) > 0 /\ e.msg[1] = SelectPrefix  -> "template"
      [] Len(e.msg) > 0 /\ e.msg[1] = ContentPrefix -> "content"
      [] Len(e.msg) > 0 /\ e.msg[1] = CompilePrefix -> "compilation"
      [] OTHER -> "none"

(***************************************************************************)
(* asyncio event loop: handles, timers, tasks, gather                      *)
(***************************************************************************)
Branches == {"template", "content"}

StepHandle(who)   == [h |-> "step", who |-> who]
GatherHandle(who) == [h |-> "gather_cb", who |-> who]

\* inputs and external outcomes exercised when the whole pipeline runs
PipeIntents == {IntentLaunch, IntentOther}

PipeTemplateLists == { <<>>, <<WelcomeTpl, LaunchTpl>>, <<PromoTpl, NewsTpl>> }

PipeChooserOutcomes ==
    {ch \in ChooserOutcomes :
        \/ ch.kind = "raise"
        \/ ch.kind = "text" /\ ch.text \in {WelcomeTpl, GuessUnrelated}}

PipeTextOutcomes ==
    {tc \in TextOutcomes :
        \/ tc.kind = "raise" /\ tc.exc = "ConnectionError"
        \/ tc.kind = "text" /\ tc.raw \in {"plain_full", "fenced_extra", "partial"}}

PipeImageOutcomes == {io \in ImageOutcomes : io.bytes = "png1"}

\* create_email is entered with the two task objects not yet created
Init ==
    /\ intent \in PipeIntents
    /\ available \in PipeTemplateLists
    /\ uargs = NoArgs
    /\ upc = "none"
    /\ ures = NoRes
    /\ task = [b \in Branches |-> [pc |-> "none", res |-> NoRes]]
    /\ ready = <<StepHandle("main")>>
    /\ timers = <<>>
    /\ ntodo = 0
    /\ gather = [nfinished |-> 0, outer |-> "none", exc |-> NoErr, retrieved |-> {}]
    /\ mainpc = "start"
    /\ result = NoRes
    /\ cd = EmptyDict
    /\ pending = <<>>
    /\ sink = EmptySink
    /\ calls = <<>>
    /\ ext = NoExt
    /\ compile_calls = <<>>
    /\ containers = Stages
    /\ assistant = NoPrompt

\* BaseEventLoop._run_once takes the handles that are ready at the start of
\* an iteration and runs them in order; handles scheduled meanwhile wait for
\* the next iteration
Head1 == Head(ready)
PopReady(added) ==
    /\ ready # <<>>
    /\ ready' = Tail(ready) \o added
    /\ ntodo' = IF ntodo = 0 THEN Len(ready) - 1 ELSE ntodo - 1

\* a sleeping coroutine's timer expires: between iterations the loop moves
\* the due timers, earliest deadline first, to the ready queue
TimerFire ==
    /\ ntodo = 0
    /\ timers # <<>>
    /\ ready' = Append(ready, StepHandle(Head(timers)))
    /\ timers' = Tail(timers)
    /\ UNCHANGED <<intent, available, containers, assistant, uargs, upc, ures, task, ntodo, gather, mainpc,
                   result, cd, pending, sink, calls, ext, compile_calls>>

\* create_email up to "await asyncio.gather(...)"
CreateEmailStart ==
    /\ ready # <<>> /\ Head1 = StepHandle("main")
    /\ mainpc = "start"
    /\ task' = [b \in Branches |-> [pc |-> "created", res |-> NoRes]]
    /\ gather' = [gather EXCEPT !.outer = "pending"]
    /\ mainpc' = "await_gather"
    /\ PopReady(<<StepHandle("template"), StepHandle("content")>>)
    /\ UNCHANGED <<intent, available, containers, assistant, uargs, upc, ures, timers, result, cd, pending,
                   sink, calls, ext, compile_calls>>

\* _select_template up to the sleep inside select_template
TemplateTaskStart ==
    /\ ready # <<>> /\ Head1 = StepHandle("template")
    /\ task["template"].pc = "created"
    /\ IF available = <<>>
       THEN LET w == WrapperExcept(SelectPrefix,
                        Exc("EmailCreationError",
                            <<"No templates found in the templates directory">>))
            IN  /\ task' = [task EXCEPT !["template"] = [pc |-> "done", res |-> Fail(w.err)]]
                /\ sink' = Deliver(sink, "template", w.ups)
                /\ timers' = timers
                /\ PopReady(<<GatherHandle("template")>>)
       ELSE /\ task' = [task EXCEPT !["template"].pc = "sleeping"]
            /\ sink' = Deliver(sink, "template", SelectTemplateSeg1)
            /\ timers' = Append(timers, "template")
            /\ PopReady(<<>>)
    /\ UNCHANGED <<intent, available, containers, assistant, uargs, upc, ures, gather, mainpc, result, cd,
                   pending, calls, ext, compile_calls>>

\* _select_template after the sleep, to its return or raise
TemplateTaskResume ==
    /\ ready # <<>> /\ Head1 = StepHandle("template")
    /\ task["template"].pc = "sleeping"
    /\ \E ch \in PipeChooserOutcomes :
         LET r == SelectTemplateSeg2(intent, available, available, ch)
             w == WrapperExcept(SelectPrefix, r.res.err)
         IN  /\ task' = [task EXCEPT !["template"] =
                           [pc |-> "done",
                            res |-> IF r.res.ok THEN r.res ELSE Fail(w.err)]]
             /\ sink' = Deliver(sink, "template",
                                r.ups \o (IF r.res.ok THEN <<>> ELSE w.ups))
             /\ calls' = calls \o r.calls
             /\ ext' = IF r.calls = <<>> THEN ext ELSE [ext EXCEPT !.chooser = ch]
    /\ PopReady(<<GatherHandle("template")>>)
    /\ UNCHANGED <<intent, available, containers, assistant, uargs, upc, ures, timers, gather, mainpc, result,
                   cd, pending, compile_calls>>

\* _generate_content up to the sleep inside generate_content
ContentTaskStart ==
    /\ ready # <<>> /\ Head1 = StepHandle("content")
    /\ task["content"].pc = "created"
    /\ task' = [task EXCEPT !["content"].pc = "sleeping"]
    /\ sink' = Deliver(sink, "content", GenerateContentSeg1)
    /\ timers' = Append(timers, "content")
    /\ PopReady(<<>>)
    /\ UNCHANGED <<intent, available, containers, assistant, uargs, upc, ures, gather, mainpc, result, cd,
                   pending, calls, ext, compile_calls>>

\* _generate_content after the sleep, to its return or raise
ContentTaskResume ==
    /\ ready # <<>> /\ Head1 = StepHandle("content")
    /\ task["content"].pc = "sleeping"
    /\ \E tc \in PipeTextOutcomes, ios \in [1..Len(ImageKeys) -> PipeImageOutcomes] :
       \E order \in SetOrders(MissingKeys(tc)) :
         LET r == GenerateContentSeg2(tc, ios, order)
             w == WrapperExcept(ContentPrefix, r.res.err)
         IN  /\ task' = [task EXCEPT !["content"] =
                           [pc |-> "done",
                            res |-> IF r.res.ok THEN r.res ELSE Fail(w.err)]]
             /\ sink' = Deliver(sink, "content",
                                r.ups \o (IF r.res.ok THEN <<>> ELSE w.ups))
             /\ calls' = calls \o r.calls
             /\ ext' = [ext EXCEPT !.text = tc,
                                   !.order = order,
                                   !.images = IF "generateImage" \in Range(r.calls)
                                               THEN ios ELSE <<>>]
    /\ PopReady(<<GatherHandle("content")>>)
    /\ UNCHANGED <<intent, available, containers, assistant, uargs, upc, ures, timers, gather, mainpc, result,
                   cd, pending, compile_calls>>

\* variant: return_exceptions=True, a child's exception counts as its result
GatherDone_ReturnExceptions(g, who, res) ==
    LET g1 == [g EXCEPT !.nfinished = @ + 1, !.retrieved = @ \cup {who}]
    IN  IF g.outer # "pending" THEN g1
        ELSE IF g1.nfinished = Cardinality(Branches) THEN [g1 EXCEPT !.outer = "result"]
        ELSE g1

\* variant: the join waits for both children and raises the last failure
GatherDone_LastError(g, who, res) ==
    LET g1 == [g EXCEPT !.nfinished = @ + 1, !.retrieved = @ \cup {who},
                        !.exc = IF res.ok THEN @ ELSE res.err]
    IN  IF g1.nfinished < Cardinality(Branches) THEN g1
        ELSE IF g1.exc # NoErr THEN [g1 EXCEPT !.outer = "exception"]
        ELSE [g1 EXCEPT !.outer = "result"]

\* gather's _done_callback for one child, with return_exceptions=False
GatherDone(g, who, res) ==
    LET g1 == [g EXCEPT !.nfinished = @ + 1, !.retrieved = @ \cup {who}]
    IN  IF g.outer # "pending" THEN g1
        ELSE IF ~res.ok THEN [g1 EXCEPT !.outer = "exception", !.exc = res.err]
        ELSE IF g1.nfinished = Cardinality(Branches) THEN [g1 EXCEPT !.outer = "result"]
        ELSE g1

GatherCallback ==
    /\ ready # <<>> /\ Head1.h = "gather_cb"
    /\ LET who == Head1.who
           g   == GatherDone(gather, who, task[who].res)
       IN  /\ gather' = g
           /\ PopReady(IF gather.outer = "pending" /\ g.outer # "pending"
                       THEN <<StepHandle("main")>> ELSE <<>>)
    /\ UNCHANGED <<intent, available, containers, assistant, uargs, upc, ures, task, timers, mainpc, result,
                   cd, pending, sink, calls, ext, compile_calls>>

(***************************************************************************)
(* EmailOrchestrator.create_email after the join                           *)
(***************************************************************************)
\* "except Exception as e: st.error(...); raise" of create_email
CreateEmailRaise(e) ==
    /\ result' = Fail(e)
    /\ mainpc' = "done"
    /\ assistant' = AfterCreateEmail(assistant, Fail(e))

\* the image service during the Compiler stage
CompileImageOutcomes ==
    {[i \in 1..Len(ImageKeys) |-> o] : o \in PipeImageOutcomes}

\* the join raised: create_email raises what gather raised
CreateEmailJoinFailed ==
    /\ ready # <<>> /\ Head1 = StepHandle("main")
    /\ mainpc = "await_gather"
    /\ gather.outer = "exception"
    /\ CreateEmailRaise(gather.exc)
    /\ PopReady(<<>>)
    /\ UNCHANGED <<intent, available, containers, uargs, upc, ures, task, timers, gather, cd,
                   pending, sink, calls, ext, compile_calls>>

\* the join returned: campaign_details.update(...), then _compile_html up to
\* the sleep inside compile_html, or to its raise
CreateEmailCompile ==
    /\ ready # <<>> /\ Head1 = StepHandle("main")
    /\ mainpc = "await_gather"
    /\ gather.outer = "result"
    /\ LET template == task["template"].res.val
           content  == task["content"].res.val
       IN  /\ compile_calls' = Append(compile_calls,
                                      [template |-> template, content |-> content])
           /\ cd' = MergeDicts(cd, [template |-> template, content |-> content])
           /\ \E ro \in RenderOutcomes, ios \in CompileImageOutcomes :
                LET r == CompileHtmlSeg1(template, content, ro)
                    w == WrapperExcept(CompilePrefix, r.res.err)
                    n == Len(SelectSeq(r.calls, LAMBDA c : c = "generateImage"))
                IN  /\ sink' = Deliver(sink, "compilation",
                                       r.ups \o (IF r.done THEN w.ups ELSE <<>>))
                    /\ calls' = calls \o r.calls
                    /\ ext' = [ext EXCEPT !.cimages = SubSeq(ios, 1, n),
                                          !.render = IF "renderTemplate" \in Range(r.calls)
                                                     THEN ro ELSE @]
                    /\ pending' = r.html
                    /\ IF r.done
                       THEN /\ CreateEmailRaise(w.err)
                            /\ timers' = timers
                       ELSE /\ mainpc' = "compile_sleep"
                            /\ result' = result
                            /\ assistant' = assistant
                            /\ timers' = Append(timers, "main")
    /\ PopReady(<<>>)
    /\ UNCHANGED <<intent, available, containers, uargs, upc, ures, task, gather>>

\* compile_html after its sleep, then the rest of create_email
CreateEmailFinish ==
    /\ ready # <<>> /\ Head1 = StepHandle("main")
    /\ mainpc = "compile_sleep"
    /\ LET r == CompileHtmlSeg2(pending)
           w == WrapperExcept(CompilePrefix, r.res.err)
           template == task["template"].res.val
           content  == task["content"].res.val
       IN  /\ sink' = Deliver(sink, "compilation",
                              r.ups \o (IF r.res.ok THEN <<>> ELSE w.ups))
           /\ IF r.res.ok
              THEN LET res == [template |-> template, content |-> content,
                               html |-> r.res.val]
                   IN  /\ cd' = StoreResult(assistant,
                                            MergeDicts(cd, [html |-> r.res.val]), res)
                       /\ result' = Ok(res)
                       /\ mainpc' = "done"
                       /\ assistant' = AfterCreateEmail(assistant, Ok(res))
              ELSE /\ cd' = cd
                   /\ CreateEmailRaise(w.err)
    /\ PopReady(<<>>)
    /\ UNCHANGED <<intent, available, containers, uargs, upc, ures, task, timers, gather, pending,
                   calls, ext, compile_calls>>

Next ==
    \/ TimerFire
    \/ CreateEmailStart
    \/ TemplateTaskStart
    \/ TemplateTaskResume
    \/ ContentTaskStart
    \/ ContentTaskResume
    \/ GatherCallback
    \/ CreateEmailJoinFailed
    \/ CreateEmailCompile
    \/ CreateEmailFinish

Spec == Init /\ [][Next]_vars

(***************************************************************************)
(* External calls that never return.  The service calls are synchronous    *)
(* and made without a timeout, so the coroutine that makes one keeps the   *)
(* event loop inside its handle: nothing else runs afterwards.             *)
(***************************************************************************)
BlockedHandle(who) == [h |-> "blocked", who |-> who]

\* the running handle stays at the head of the loop's queue
BlockHead(who) ==
    /\ ready' = <<BlockedHandle(who)>> \o Tail(ready)
    /\ ntodo' = IF ntodo = 0 THEN Len(ready) ELSE ntodo

HangChooser == [kind |-> "hang", text |-> <<>>]
HangText    == [kind |-> "hang", exc |-> "", raw |-> ""]
HangImage   == [kind |-> "hang", bytes |-> "png1"]
HangRender  == [kind |-> "hang", text |-> <<>>]

\* select_template: the template-choice call does not return
TemplateChoiceHangs ==
    /\ ready # <<>> /\ Head1 = StepHandle("template")
    /\ task["template"].pc = "sleeping"
    /\ task' = [task EXCEPT !["template"].pc = "blocked"]
    /\ sink' = Deliver(sink, "template", <<Upd(<<"Evaluating templates">>, 6)>>)
    /\ calls' = Append(calls, "chooseTemplate")
    /\ ext' = [ext EXCEPT !.chooser = HangChooser]
    /\ BlockHead("template")
    /\ UNCHANGED <<intent, available, containers, assistant, uargs, upc, ures, timers, gather, mainpc, result,
                   cd, pending, compile_calls>>

\* generate_content: the text-generation call does not return
TextCallHangs ==
    /\ ready # <<>> /\ Head1 = StepHandle("content")
    /\ task["content"].pc = "sleeping"
    /\ task' = [task EXCEPT !["content"].pc = "blocked"]
    /\ sink' = Deliver(sink, "content", <<Upd(<<"Generating text content">>, 3)>>)
    /\ calls' = Append(calls, "generateStructuredContent")
    /\ ext' = [ext EXCEPT !.text = HangText]
    /\ BlockHead("content")
    /\ UNCHANGED <<intent, available, containers, assistant, uargs, upc, ures, timers, gather, mainpc, result,
                   cd, pending, compile_calls>>

\* generate_content: the text passed the checks and the first image call
\* does not return
ImageCallHangs ==
    /\ ready # <<>> /\ Head1 = StepHandle("content")
    /\ task["content"].pc = "sleeping"
    /\ \E tc \in PipeTextOutcomes :
         /\ GenerateContentSeg2(tc, [i \in 1..Len(ImageKeys) |-> HangImage],
                                RequiredOrder).res.ok
         /\ ext' = [ext EXCEPT !.text = tc, !.images = <<HangImage>>]
    /\ task' = [task EXCEPT !["content"].pc = "blocked"]
    /\ sink' = Deliver(sink, "content", <<Upd(<<"Generating text content">>, 3),
                                          Upd(<<"Generating images">>, 5)>>)
    /\ calls' = calls \o <<"generateStructuredContent", "generateImage">>
    /\ BlockHead("content")
    /\ UNCHANGED <<intent, available, containers, assistant, uargs, upc, ures, timers, gather, mainpc, result,
                   cd, pending, compile_calls>>

\* compile_html: the images are generated and the rendering call does not
\* return
RenderHangs ==
    /\ ready # <<>> /\ Head1 = StepHandle("main")
    /\ mainpc = "await_gather"
    /\ gather.outer = "result"
    /\ LET template == task["template"].res.val
           content  == task["content"].res.val
       IN  /\ \A i \in 1..Len(PromptKeys) : PromptOk(content, i)
           /\ compile_calls' = Append(compile_calls,
                                      [template |-> template, content |-> content])
           /\ cd' = MergeDicts(cd, [template |-> template, content |-> content])
    /\ \E ios \in CompileImageOutcomes : ext' = [ext EXCEPT !.cimages = ios,
                                                          !.render = HangRender]
    /\ sink' = Deliver(sink, "compilation", <<Upd(<<"Generating images">>, 3),
                                              Upd(<<"Processing template">>, 6)>>)
    /\ calls' = calls \o ImageCalls \o <<"renderTemplate">>
    /\ mainpc' = "blocked"
    /\ BlockHead("main")
    /\ UNCHANGED <<intent, available, containers, assistant, uargs, upc, ures, task, timers, gather, result,
                   pending>>

NextHang ==
    \/ Next
    \/ TemplateChoiceHangs
    \/ TextCallHangs
    \/ ImageCallHangs
    \/ RenderHangs

\* the event loop keeps running handles and timers as long as there are any
SpecHang == Init /\ [][NextHang]_vars /\ WF_vars(NextHang)

(***************************************************************************)
(* create_email on an orchestrator with or without registered displays     *)
(***************************************************************************)
\* _status_containers is {} after __init__ and holds the three stages after
\* setup_status_displays
DirectContainers == {{}, Stages}

InitDirect ==
    /\ intent = IntentLaunch
    /\ available \in PipeTemplateLists
    /\ containers \in DirectContainers
    /\ assistant = NoPrompt
    /\ uargs = NoArgs
    /\ upc = "none"
    /\ ures = NoRes
    /\ task = [b \in Branches |-> [pc |-> "none", res |-> NoRes]]
    /\ ready = <<StepHandle("main")>>
    /\ timers = <<>>
    /\ ntodo = 0
    /\ gather = [nfinished |-> 0, outer |-> "none", exc |-> NoErr, retrieved |-> {}]
    /\ mainpc = "start"
    /\ result = NoRes
    /\ cd = EmptyDict
    /\ pending = <<>>
    /\ sink = EmptySink
    /\ calls = <<>>
    /\ ext = NoExt
    /\ compile_calls = <<>>

SpecDirect == InitDirect /\ [][Next]_vars

(***************************************************************************)
(* EmailAssistant.process_prompt over one session state                    *)
(***************************************************************************)
AssistantPrompts == {IntentLaunch}
AssistantTemplateLists == { <<>>, <<WelcomeTpl, LaunchTpl>> }

InitAssistant ==
    /\ intent = <<>>
    /\ available \in AssistantTemplateLists
    /\ containers = {}
    /\ assistant = NewSession
    /\ uargs = NoArgs
    /\ upc = "none"
    /\ ures = NoRes
    /\ task = [b \in Branches |-> [pc |-> "none", res |-> NoRes]]
    /\ ready = <<>>
    /\ timers = <<>>
    /\ ntodo = 0
    /\ gather = [nfinished |-> 0, outer |-> "none", exc |-> NoErr, retrieved |-> {}]
    /\ mainpc = "none"
    /\ result = NoRes
    /\ cd = EmptyDict
    /\ pending = <<>>
    /\ sink = EmptySink
    /\ calls = <<>>
    /\ ext = NoExt
    /\ compile_calls = <<>>

\* set_contacts: the contacts file has been uploaded
LoadContacts ==
    /\ assistant.pc = "idle"
    /\ ~assistant.contacts
    /\ assistant' = [assistant EXCEPT !.contacts = TRUE]
    /\ UNCHANGED <<intent, available, containers, uargs, upc, ures, task, ready, timers,
                   ntodo, gather, mainpc, result, cd, pending, sink, calls, ext,
                   compile_calls>>

\* process_prompt: "if not contacts:" a message, then return
ProcessPromptNoContacts ==
    /\ assistant.pc = "idle"
    /\ assistant.prompts < MaxPrompts
    /\ ~assistant.contacts
    /\ assistant' = [assistant EXCEPT !.prompts = @ + 1, !.last = "no_contacts"]
    /\ UNCHANGED <<intent, available, containers, uargs, upc, ures, task, ready, timers,
                   ntodo, gather, mainpc, result, cd, pending, sink, calls, ext,
                   compile_calls>>

\* process_prompt with current_step = "welcome", up to the first step of
\* "await self.orchestrator.create_email(...)"
ProcessPromptWelcome ==
    /\ assistant.pc = "idle"
    /\ assistant.prompts < MaxPrompts
    /\ assistant.contacts
    /\ assistant.current_step = "welcome"
    /\ \E prompt \in AssistantPrompts :
         /\ intent' = prompt
         /\ cd' = MergeDicts(cd, [intent |-> prompt])
    /\ containers' = Stages
    /\ mainpc' = "start"
    /\ ready' = Append(ready, StepHandle("main"))
    /\ assistant' = [assistant EXCEPT !.pc = "awaiting", !.created = @ + 1,
                                      !.prompts = @ + 1, !.last = "created"]
    /\ UNCHANGED <<available, uargs, upc, ures, task, timers, ntodo, gather, result,
                   pending, sink, calls, ext, compile_calls>>

\* process_prompt with current_step = "feedback": a message only
ProcessPromptFeedback ==
    /\ assistant.pc = "idle"
    /\ assistant.prompts < MaxPrompts
    /\ assistant.contacts
    /\ assistant.current_step = "feedback"
    /\ assistant' = [assistant EXCEPT !.prompts = @ + 1, !.last = "feedback_message"]
    /\ UNCHANGED <<intent, available, containers, uargs, upc, ures, task, ready, timers,
                   ntodo, gather, mainpc, result, cd, pending, sink, calls, ext,
                   compile_calls>>

NextAssistant ==
    \/ LoadContacts
    \/ ProcessPromptNoContacts
    \/ ProcessPromptWelcome
    \/ ProcessPromptFeedback
    \/ Next

SpecAssistant == InitAssistant /\ [][NextAssistant]_vars

(***************************************************************************)
(* Properties                                                              *)
(***************************************************************************)
BranchOk(b)     == task[b].pc = "done" /\ task[b].res.ok
BranchFailed(b) == task[b].pc = "done" /\ ~task[b].res.ok
MainRaised      == mainpc = "done" /\ ~result.ok
MainReturned    == mainpc = "done" /\ result.ok

\* C1: the Compiler stage is invoked (and the renderer called) only when both
\* the template branch and the content branch have completed successfully; in
\* a run where either branch has failed the Compiler is never invoked.
C1_CompilerOnlyAfterBothSucceed ==
    /\ (compile_calls # <<>> \/ "renderTemplate" \in Range(calls) \/ mainpc = "compile_sleep")
          => (BranchOk("template") /\ BranchOk("content"))
    /\ (BranchFailed("template") \/ BranchFailed("content")) => compile_calls = <<>>

C1_Witness ==
    /\ Len(compile_calls) = 1
    /\ BranchOk("template") /\ BranchOk("content")
    /\ "renderTemplate" \in Range(calls)

\* C2 as stated: whenever the content generator's text call raised, create_email
\* ends by raising an error of the content stage (and returns no result).
C2_TextCallRaiseIsContentError ==
    (mainpc = "done" /\ ext.text.kind = "raise")
        => (~result.ok /\ StageOfError(result.err) = "content")

\* C2 amended: create_email returns a result only if both branches and the
\* compilation succeeded; when the text call raised it returns no result and
\* raises the content-stage error if the template branch succeeded, and the
\* template-stage error if the template branch failed (it failed first).
C2_TextCallRaiseFirstErrorWins ==
    /\ MainReturned =>
          /\ BranchOk("template") /\ BranchOk("content")
          /\ ext.render.kind = "text" /\ result.val.html = ext.render.text
    /\ (mainpc = "done" /\ ext.text.kind = "raise") =>
          /\ ~result.ok
          /\ result.val = <<>>
          /\ BranchOk("template") => StageOfError(result.err) = "content"
          /\ BranchFailed("template") => StageOfError(result.err) = "template"
          /\ task["template"].pc = "done"

C2_Witness ==
    /\ MainRaised
    /\ ext.text.kind = "raise"
    /\ BranchOk("template")
    /\ StageOfError(result.err) = "content"

\* C3: create_email does not raise to its caller while a branch task is still
\* running or its outcome has not been taken by the join.
C3_BranchesDrainedBeforeRaise ==
    MainRaised => \A b \in Branches : task[b].pc = "done" /\ b \in gather.retrieved

\* the error class of each stage
StageErrorClass ==
    [template    |-> "TemplateSelectionError",
     content     |-> "ContentGenerationError",
     compilation |-> "EmailCompilationError"]

\* C4: the error create_email raises is of the class specific to the failed
\* stage, a proper subclass of the common EmailCreationError.
C4_StageSpecificErrorKind ==
    MainRaised =>
        /\ StageOfError(result.err) \in Stages
        /\ result.err.cls = StageErrorClass[StageOfError(result.err)]
        /\ IsSubclass(result.err.cls, "EmailCreationError")

\* C5: for a nonempty candidate list, whatever the intent and whatever the
\* chooser answers, a value returned by select_template is one of the candidates.
C5_SelectedIsCandidate ==
    (upc = "done" /\ ures.ok /\ uargs.templates # <<>>)
        => \E i \in 1..Len(uargs.templates) : uargs.templates[i] = ures.val

C5_Witness ==
    /\ upc = "done" /\ ures.ok
    /\ uargs.templates = <<PromoTpl, NewsTpl>>
    /\ intent = IntentLaunch
    /\ ext.chooser.kind = "text" /\ ext.chooser.text = GuessUnrelated
    /\ ures.val = PromoTpl

\* C6 as stated: select_template called with an empty candidate list fails
\* with the no-candidates error and does not invoke the external chooser.
C6_EmptyCandidatesFail ==
    (upc = "done" /\ uargs.templates = <<>>)
        => /\ ~ures.ok
           /\ ures.err.msg = <<"Template selection failed: ", "No templates available">>
           /\ "chooseTemplate" \notin Range(calls)

\* C6 amended: called with an empty candidate list, select_template takes the
\* template service's listing as the candidates.  When that listing is empty
\* too it fails with the no-candidates error ("No templates available")
\* without invoking the chooser.  When the listing is not empty it invokes the
\* chooser exactly once; a call that returns then returns a member of the
\* listing, and a call that fails does not fail with the no-candidates error.
C6_EmptyCandidatesFallBackToListing ==
    (upc = "done" /\ uargs.templates = <<>>)
        => /\ available = <<>> =>
                /\ ~ures.ok
                /\ ures.err.msg = <<"Template selection failed: ", "No templates available">>
                /\ calls = <<>>
                /\ ext.chooser.kind = "not_called"
           /\ available # <<>> =>
                /\ calls = <<"chooseTemplate">>
                /\ ext.chooser.kind # "not_called"
                /\ ures.ok => InSeq(ures.val, available)
                /\ ~ures.ok => "No templates available" \notin Range(ures.err.msg)

C6_Witness ==
    /\ upc = "done" /\ uargs.templates = <<>>
    /\ available = <<WelcomeTpl, LaunchTpl>>
    /\ calls = <<"chooseTemplate">>
    /\ ext.chooser.kind = "text"
    /\ ures.ok /\ InSeq(ures.val, available)

\* C7: every map generate_content returns has the 14 required text keys and
\* the 4 image keys.
C7_ReturnedMapComplete ==
    (upc = "done" /\ ures.ok)
        => /\ \A i \in 1..Len(RequiredOrder) : RequiredOrder[i] \in DOMAIN ures.val
           /\ {"HERO_IMAGE", "FEATURE1_IMAGE", "FEATURE2_IMAGE", "HIGHLIGHT_IMAGE"}
                 \subseteq DOMAIN ures.val
           /\ Len(RequiredOrder) = 14

C7_Witness ==
    /\ upc = "done" /\ ures.ok
    /\ ext.text.raw = "fenced_full"
    /\ Cardinality(DOMAIN ures.val) = 18

\* the response, fences and blank lines aside, is one JSON object that has
\* every required field
CompleteRecord(raw) ==
    LET body == SelectSeq(ResponseTexts[raw], LAMBDA l : l.t \in {"json", "prose"})
    IN  /\ Len(body) = 1
        /\ body[1].t = "json"
        /\ body[1].v.k = "obj"
        /\ \A i \in 1..Len(RequiredOrder) : RequiredOrder[i] \in DOMAIN body[1].v.d

\* C8: when the text call raises, or its output is not a record, or a required
\* field is absent, generate_content raises ContentGenerationError and returns
\* no map.
C8_BadTextFailsWithContentError ==
    (upc = "done" /\ (ext.text.kind \in {"raise", "none"}
                      \/ (ext.text.kind = "text" /\ ~CompleteRecord(ext.text.raw))))
        => /\ ~ures.ok
           /\ ures.err.cls = "ContentGenerationError"
           /\ ures.val = <<>>

C8_Witness ==
    /\ upc = "done"
    /\ ext.text.kind = "text" /\ ext.text.raw = "fenced_partial"
    /\ ~ures.ok

\* what an image key must hold given what its own call did
ExpectedImage(io) ==
    IF io.kind = "raise" THEN <<"https://via.placeholder.com/500x300">>
    ELSE <<"data:image/png;base64,", B64[io.bytes]>>

HtmlBounded(t) ==
    \E i, j \in 1..Len(t) :
        /\ i < j /\ t[i] = "<" /\ t[j] = ">"
        /\ \A k \in 1..Len(t) : (k < i \/ k > j) => t[k] = " "

\* C9: once the image calls are issued, whichever of them fail, the content
\* branch succeeds, a failed call's key holds the placeholder, every other key
\* holds the data URI of its own call's bytes, and create_email succeeds
\* whenever the template branch succeeded and the renderer returned markup.
C9_ImageFailuresAbsorbed ==
    Len(ext.images) = Len(ImageKeys)
        => /\ BranchOk("content")
           /\ \A i \in 1..Len(ImageKeys) :
                 task["content"].res.val[ImageKeys[i]] = ExpectedImage(ext.images[i])
           /\ MainRaised => StageOfError(result.err) # "content"
           /\ (mainpc = "done" /\ BranchOk("template")
                 /\ ext.render.kind = "text" /\ HtmlBounded(ext.render.text))
                => result.ok

C9_Witness ==
    /\ MainReturned
    /\ ext.images[1].kind = "raise" /\ ext.images[2].kind = "bytes"
    /\ ext.images[3].kind = "raise" /\ ext.images[4].kind = "bytes"
    /\ ext.cimages[1].kind = "raise"
    /\ result.val.content["HERO_IMAGE"] = Placeholder
    /\ result.val.content["FEATURE1_IMAGE"] # Placeholder

\* C10: compile_html returns the rendered text exactly when the renderer
\* returned, without raising, a non-empty text whose trimmed form begins with
\* "<" and ends with ">"; otherwise it raises EmailCompilationError and
\* returns nothing.
C10_CompileReturnsIffMarkup ==
    upc = "done"
        => /\ ures.ok <=> (ext.render.kind = "text" /\ ext.render.text # <<>>
                           /\ HtmlBounded(ext.render.text))
           /\ ures.ok => ures.val = ext.render.text
           /\ ~ures.ok => (ures.err.cls = "EmailCompilationError" /\ ures.val = <<>>)

C10_Witness ==
    /\ upc = "done" /\ ures.ok
    /\ ext.render.text = <<" ", "<", ">">>

\* the progress values of a sequence of status updates never go down
NonDecreasing(ups) ==
    \A i \in 1..(Len(ups) - 1) : ups[i].progress <= ups[i + 1].progress

\* number of updates of a sequence that carry progress 1.0
FinalCount(ups) == Len(SelectSeq(ups, LAMBDA u : u.progress = 10))

IsErrorUpdate(u) == Len(u.msg) > 0 /\ u.msg[1] = "Error: "

\* C11: when create_email has returned a result, the progress values delivered
\* to each of the three stage sinks (template, content, compilation) form a
\* non-decreasing sequence whose last value is 1.0.
C11_SuccessfulRunProgressMonotone ==
    MainReturned =>
        \A st \in Stages :
            /\ sink[st] # <<>>
            /\ NonDecreasing(sink[st])
            /\ sink[st][Len(sink[st])].progress = 10

C11_Witness ==
    /\ MainReturned
    /\ Len(sink["template"]) = 3
    /\ Len(sink["content"]) = 4
    /\ Len(sink["compilation"]) = 4
    /\ sink["content"][1].progress < sink["content"][2].progress

\* the stages that have terminated: a branch task is done, the compilation
\* has been invoked and create_email is done
StageTerminated(st) ==
    IF st \in Branches THEN task[st].pc = "done"
    ELSE compile_calls # <<>> /\ mainpc = "done"

StageFailed(st) ==
    IF st \in Branches THEN BranchFailed(st)
    ELSE compile_calls # <<>> /\ MainRaised

\* C12: every stage delivers progress 1.0 to its sink at most once, a stage
\* that has terminated has delivered it exactly once, and the 1.0 update of a
\* failed stage carries an error message.
C12_FinalProgressExactlyOnce ==
    \A st \in Stages :
        /\ FinalCount(sink[st]) <= 1
        /\ StageTerminated(st) => FinalCount(sink[st]) = 1
        /\ StageFailed(st) =>
               \A i \in 1..Len(sink[st]) :
                   sink[st][i].progress = 10 => IsErrorUpdate(sink[st][i])

\* C13: when create_email returns, the record has exactly the keys template,
\* content and html; template is what the template branch returned, content
\* is what the content branch returned, the Compiler was invoked once with
\* that pair, and html is the text rendered in that invocation.
C13_ResultRecord ==
    MainReturned =>
        /\ DOMAIN result.val = {"template", "content", "html"}
        /\ result.val.template = task["template"].res.val
        /\ result.val.content = task["content"].res.val
        /\ compile_calls = <<[template |-> result.val.template,
                              content  |-> result.val.content]>>
        /\ ext.render.kind = "text"
        /\ result.val.html = ext.render.text

C13_Witness ==
    /\ MainReturned
    /\ result.val.template = PromoTpl
    /\ "cta_url" \in DOMAIN result.val.content
    /\ result.val.html # Strip(result.val.html)

\* campaign_details entries that create_email writes
ResultKeys == {"template", "content", "html"}

\* C14: when create_email has raised, the campaign_details of the assistant
\* state have no template, content or html entry, as before the call.
C14_FailureLeavesStateUnchanged ==
    MainRaised => DOMAIN cd \cap ResultKeys = {}

\* the answer select_template gets from the service, and the candidates it
\* resolves the answer against
ChooserAnswer == Strip(ext.chooser.text)
Candidates == IF uargs.templates = <<>> THEN available ELSE uargs.templates

SelectDone == uargs.fn = "select_template" /\ upc = "done"

HasKeyword(kw) == Contains(kw, Lower(intent))

\* the case of C15: candidates welcome and product launch, a chooser answer
\* outside the candidates, an intent that contains "product launch"
LaunchCase ==
    /\ SelectDone
    /\ uargs.templates = <<WelcomeTpl, LaunchTpl>>
    /\ ext.chooser.kind = "text"
    /\ ~InSeq(ChooserAnswer, uargs.templates)
    /\ HasKeyword(KwProductLaunch)

\* C15 as stated: in that case select_template returns the product launch
\* template.
C15_ProductLaunchKeywordWins ==
    LaunchCase => (ures.ok /\ ures.val = LaunchTpl)

\* C15 amended: in that case, a blank answer makes select_template fail with
\* a TemplateSelectionError; otherwise it returns the welcome template when
\* the intent also contains "welcome" or "onboarding", which come first in the
\* keyword table, and the product launch template when it contains neither.
C15_FirstTableKeywordWins ==
    LaunchCase =>
        IF ChooserAnswer = <<>>
        THEN ~ures.ok /\ ures.err.cls = "TemplateSelectionError"
        ELSE /\ ures.ok
             /\ ures.val = IF HasKeyword(KwWelcome) \/ HasKeyword(KwOnboarding)
                            THEN WelcomeTpl ELSE LaunchTpl

C15_Witness ==
    /\ LaunchCase
    /\ ChooserAnswer = GuessUnrelated
    /\ HasKeyword(KwWelcome)
    /\ ures.ok /\ ures.val = WelcomeTpl

\* C16: with a nonempty candidate list, whatever text the chooser returns,
\* select_template returns a member of the candidates; it fails only when the
\* candidate list is empty or the chooser call raised.
C16_NonemptyCandidatesAlwaysSucceed ==
    /\ (SelectDone /\ uargs.templates # <<>> /\ ext.chooser.kind = "text")
           => (ures.ok /\ InSeq(ures.val, uargs.templates))
    /\ (SelectDone /\ ~ures.ok)
           => (uargs.templates = <<>> \/ ext.chooser.kind \in {"raise", "none"})

\* C17: every invocation of the Compiler stage by create_email is made with a
\* content map that has all 14 required text fields.
C17_CompilerContentComplete ==
    /\ Cardinality(RequiredFields) = 14
    /\ \A i \in 1..Len(compile_calls) :
           RequiredFields \subseteq DOMAIN compile_calls[i].content

C17_Witness ==
    /\ Len(compile_calls) = 1
    /\ ext.text.kind = "text" /\ ext.text.raw = "fenced_extra"
    /\ RequiredFields \subseteq DOMAIN compile_calls[1].content
    /\ Range(ImageKeys) \subseteq DOMAIN compile_calls[1].content

\* C18: every run of create_email eventually returns or raises, whatever the
\* external calls do.
C18_CreateEmailTerminates == <>(mainpc = "done")

\* exception texts a provider may produce for the same failure
ProviderMessages == {"provider: network down", "provider: quota exceeded"}

\* what the fence removal leaves of a response text: no text at all when
\* the removal raises, else the lines json.loads is given
CleanedLines(name) == CleanText(ResponseTexts[name])

\* outcomes of the text call that differ from tc only in what the provider
\* wrote: another exception text for the same exception class, or another
\* response text that holds the same JSON value
SameReason(tc) ==
    CASE tc.kind = "raise" -> {[tc EXCEPT !.raw = r] : r \in ProviderMessages}
      [] tc.kind = "text" ->
           {[tc EXCEPT !.raw = n] :
               n \in {m \in DOMAIN ResponseTexts :
                        LET a == CleanedLines(m)
                            b == CleanedLines(tc.raw)
                        IN  /\ a.ok = b.ok
                            /\ a.ok => /\ JsonLoadsOk(a.val) = JsonLoadsOk(b.val)
                                       /\ JsonLoadsOk(a.val) =>
                                              JsonLoads(a.val) = JsonLoads(b.val)}}
      [] OTHER -> {tc}

\* the error create_email raises when the content stage fails on outcome tc
ContentErrorFor(tc) ==
    WrapperExcept(ContentPrefix,
                  GenerateContentSeg2(tc, [i \in 1..Len(ImageKeys) |->
                                              [kind |-> "raise", bytes |-> "png1"]],
                                      ext.order).res.err).err

\* C19: when create_email raises the content-stage error, its message is the
\* one any run failing for the same reason gets: it does not change with the
\* exception text or the raw response text of the provider.
C19_ErrorHidesProviderText ==
    (MainRaised /\ StageOfError(result.err) = "content") =>
        \A tc2 \in SameReason(ext.text) : ContentErrorFor(tc2).msg = result.err.msg

\* rows of the keyword table whose keyword occurs in the intent and whose
\* template is a candidate; candidates whose name contains the answer
KeywordRows ==
    {i \in 1..Len(template_mapping) :
        /\ HasKeyword(template_mapping[i].keyword)
        /\ InSeq(template_mapping[i].mapped, Candidates)}

FuzzyRows ==
    {j \in 1..Len(Candidates) : Contains(Lower(ChooserAnswer), Lower(Candidates[j]))}

\* C20: when select_template returns, the value is the chooser's answer if
\* that is a candidate, whatever the intent; otherwise the template of the
\* first keyword row that applies, even when some candidate contains the
\* answer; otherwise the first candidate that contains the answer; and the
\* first candidate only when no keyword row and no containment applies.
C20_ResolutionOrder ==
    (SelectDone /\ ures.ok) =>
        IF InSeq(ChooserAnswer, Candidates) THEN ures.val = ChooserAnswer
        ELSE IF KeywordRows # {} THEN ures.val = template_mapping[MinOf(KeywordRows)].mapped
        ELSE IF FuzzyRows # {} THEN ures.val = Candidates[MinOf(FuzzyRows)]
        ELSE ures.val = Candidates[1]

\* a keyword row and a containment both apply, to different candidates
C20_Witness ==
    /\ SelectDone /\ ures.ok
    /\ ~InSeq(ChooserAnswer, Candidates)
    /\ KeywordRows # {} /\ FuzzyRows # {}
    /\ Candidates[MinOf(FuzzyRows)] # template_mapping[MinOf(KeywordRows)].mapped
    /\ ures.val = template_mapping[MinOf(KeywordRows)].mapped

\* candidates that contain the answer or are contained in it, ignoring case
TwoWayRows ==
    {j \in 1..Len(Candidates) :
        \/ Contains(Lower(ChooserAnswer), Lower(Candidates[j]))
        \/ Contains(Lower(Candidates[j]), Lower(ChooserAnswer))}

\* the containment step is reached: the answer is no candidate and no keyword
\* row applies
FuzzyStepReached ==
    /\ SelectDone /\ ures.ok
    /\ ~InSeq(ChooserAnswer, Candidates)
    /\ KeywordRows = {}

\* C21: in the containment step the first candidate, in supplied order, that
\* contains the chooser's answer or is contained in it (case-insensitively)
\* is selected.
C21_FuzzyMatchesBothWays ==
    (FuzzyStepReached /\ TwoWayRows # {}) => ures.val = Candidates[MinOf(TwoWayRows)]

GenerateDone == uargs.fn = "generate_content" /\ upc = "done"

\* C22: a call of generate_content that returns has issued the text call and
\* then exactly four image calls, for the hero, feature1, feature2 and
\* highlight images in this order; a call that fails has issued no image call.
C22_FourImageCallsAfterValidation ==
    GenerateDone =>
        IF ures.ok
        THEN /\ calls = <<"generateStructuredContent", "generateImage", "generateImage",
                          "generateImage", "generateImage">>
             /\ ImageKeys = <<"HERO_IMAGE", "FEATURE1_IMAGE", "FEATURE2_IMAGE",
                              "HIGHLIGHT_IMAGE">>
             /\ Len(ext.images) = 4
             /\ \A i \in 1..4 : ures.val[ImageKeys[i]] = ExpectedImage(ext.images[i])
        ELSE "generateImage" \notin Range(calls)

C22_Witness ==
    /\ GenerateDone /\ ures.ok
    /\ ext.images[2] # ext.images[3]
    /\ ures.val["FEATURE1_IMAGE"] # ures.val["FEATURE2_IMAGE"]
    /\ Len(calls) = 5

\* number of image-generation calls issued so far
ImageCallCount == Len(SelectSeq(calls, LAMBDA c : c = "generateImage"))

\* C23: the Compiler stage issues no image-generation call: once it has been
\* invoked, the only image calls of the run are the four of the Content
\* Generator, whose values are the ones in the content given to the Compiler.
C23_CompilerIssuesNoImageCall ==
    compile_calls # <<>> =>
        /\ ext.cimages = <<>>
        /\ ImageCallCount = Len(ImageKeys)

\* C24: the template branch always terminates before the content branch, so
\* when both branches fail the template branch is the one that failed first;
\* create_email then raises the template branch's error, and the content
\* branch's later failure does not replace it.
C24_FirstFailureWins ==
    /\ task["content"].pc = "done" => task["template"].pc = "done"
    /\ (mainpc = "done" /\ BranchFailed("template") /\ BranchFailed("content")) =>
          /\ result = Fail(task["template"].res.err)
          /\ result.err # task["content"].res.err
          /\ gather.exc = task["template"].res.err

C24_Witness ==
    /\ mainpc = "done"
    /\ BranchFailed("template") /\ BranchFailed("content")
    /\ ext.chooser.kind = "raise" /\ ext.text.kind = "raise"
    /\ StageOfError(result.err) = "template"
    /\ gather.nfinished = 2

\* the error class each agent coroutine declares for its stage
AgentErrorClass ==
    [select_template  |-> "TemplateSelectionError",
     generate_content |-> "ContentGenerationError",
     compile_html     |-> "EmailCompilationError"]

\* C25: whatever is raised inside an agent coroutine, the coroutine raises an
\* error of its own stage class: select_template a TemplateSelectionError,
\* generate_content a ContentGenerationError, compile_html an
\* EmailCompilationError.
C25_AgentRaisesOwnErrorKind ==
    (upc = "done" /\ ~ures.ok) => ures.err.cls = AgentErrorClass[uargs.fn]

C25_Witness ==
    /\ uargs.fn = "compile_html"
    /\ upc = "done" /\ ~ures.ok
    /\ ext.render.kind = "raise"
    /\ ures.err.cls = "EmailCompilationError"
    /\ ures.err.msg = <<"Email compilation failed: ", "Error rendering template ">>
                          \o uargs.template \o <<": ", "engine error">>

CountOf(seq, x) == Len(SelectSeq(seq, LAMBDA c : c = x))

\* number of times a stage was entered: its first status update
StageEntries(st, first) == Len(SelectSeq(sink[st], LAMBDA u : u.msg = <<first>>))

\* C26: in a run of create_email each stage is entered at most once, the
\* Compiler is invoked at most once, and the template-choice call and the
\* text-generation call are each issued at most once, also after they failed.
C26_NoRetry ==
    /\ CountOf(calls, "chooseTemplate") <= 1
    /\ CountOf(calls, "generateStructuredContent") <= 1
    /\ Len(compile_calls) <= 1
    /\ StageEntries("template", "Analyzing campaign intent") <= 1
    /\ StageEntries("content", "Analyzing contact data") <= 1
    /\ StageEntries("compilation", "Generating images") <= 1
    /\ (mainpc = "done" /\ ext.chooser.kind = "raise") =>
           CountOf(calls, "chooseTemplate") = 1
    /\ (task["content"].pc = "done" /\ ext.text.kind = "raise") =>
           CountOf(calls, "generateStructuredContent") = 1

C26_Witness ==
    /\ MainRaised
    /\ ext.chooser.kind = "raise"
    /\ task["content"].pc = "done" /\ ext.text.kind = "raise"
    /\ CountOf(calls, "chooseTemplate") = 1
    /\ CountOf(calls, "generateStructuredContent") = 1

IsRecord(v) == v.k = "obj" /\ RequiredFields \subseteq v.has

\* a response text that is a content record between an opening fence marker,
\* with or without a language tag, and a closing fence marker, whether the
\* markers stand on their own lines or on the line of the record
IsWrappedRecord(ls) ==
    \/ /\ Len(ls) = 3
       /\ ls[1].t \in {"fence_json", "fence"} /\ ls[2].t = "json" /\ ls[3].t = "fence"
       /\ IsRecord(ls[2].v)
    \/ Len(ls) = 1 /\ ls[1].t = "fence_json_fence" /\ IsRecord(ls[1].v)
    \/ /\ Len(ls) = 2 /\ ls[1].t = "fence_then_json" /\ ls[2].t = "fence"
       /\ IsRecord(ls[1].v)
    \/ /\ Len(ls) = 2 /\ ls[1].t \in {"fence_json", "fence"} /\ ls[2].t = "json_then_fence"
       /\ IsRecord(ls[2].v)

\* the record between the markers
InnerRecord(ls) == ls[CHOOSE i \in 1..Len(ls) : ls[i].v.k = "obj"].v

\* C28: when the text call returns a valid content record wrapped in fence
\* markers, the markers are removed: generate_email_content returns that
\* record, as for the unwrapped output, and generate_content returns it with
\* the images added.
C28_FencedRecordAccepted ==
    (GenerateDone /\ ext.text.kind = "text"
        /\ IsWrappedRecord(StripLines(ResponseTexts[ext.text.raw]))) =>
        LET inner == InnerRecord(StripLines(ResponseTexts[ext.text.raw]))
        IN  /\ AiGenerateEmailContent(ext.text, ext.order).ok
            /\ AiGenerateEmailContent(ext.text, ext.order).val = inner
            /\ ures.ok
            /\ \A f \in DOMAIN inner.d \ Range(ImageKeys) : ures.val[f] = inner.d[f]

\* C30: when create_email has returned, the campaign_details of the assistant
\* state hold the template, content and html of the returned record; an html
\* entry exists only once the Compiler has succeeded.
C30_StateMatchesResult ==
    /\ MainReturned =>
          /\ ResultKeys \subseteq DOMAIN cd
          /\ cd.template = result.val.template
          /\ cd.content = result.val.content
          /\ cd.html = result.val.html
    /\ "html" \in DOMAIN cd =>
          /\ MainReturned
          /\ LooksLikeHtml(cd.html)
          /\ sink["compilation"][Len(sink["compilation"])] = Upd(<<"Email ready">>, 10)

C30_Witness ==
    /\ MainReturned
    /\ cd.html = <<"<", " ", ">">>
    /\ cd.template = WelcomeTpl
    /\ cd.content = result.val.content

\* the outcome create_email has for the recorded outcomes of the external
\* calls when every status update is shown: the template branch, the content
\* branch and the Compiler stage composed without any sink
RefChooser == IF ext.chooser.kind = "not_called"
              THEN CHOOSE ch \in PipeChooserOutcomes : TRUE ELSE ext.chooser
RefImages  == IF ext.images = <<>>
              THEN CHOOSE ios \in CompileImageOutcomes : TRUE ELSE ext.images
RefRender  == IF ext.render.kind = "not_called"
              THEN CHOOSE ro \in RenderOutcomes : TRUE ELSE ext.render
RefTemplate ==
    IF available = <<>>
    THEN Fail(WrapperExcept(SelectPrefix,
                  Exc("EmailCreationError",
                      <<"No templates found in the templates directory">>)).err)
    ELSE LET r == SelectTemplateSeg2(intent, available, available, RefChooser)
         IN  IF r.res.ok THEN r.res ELSE Fail(WrapperExcept(SelectPrefix, r.res.err).err)
RefContent ==
    LET r == GenerateContentSeg2(ext.text, RefImages, ext.order)
    IN  IF r.res.ok THEN r.res ELSE Fail(WrapperExcept(ContentPrefix, r.res.err).err)
RefCompile(template, content) ==
    LET r1 == CompileHtmlSeg1(template, content, RefRender)
        r2 == CompileHtmlSeg2(r1.html)
    IN  IF r1.done THEN Fail(WrapperExcept(CompilePrefix, r1.res.err).err)
        ELSE IF ~r2.res.ok THEN Fail(WrapperExcept(CompilePrefix, r2.res.err).err)
        ELSE Ok([template |-> template, content |-> content, html |-> r2.res.val])
RefResult ==
    IF ~RefTemplate.ok THEN RefTemplate
    ELSE IF ~RefContent.ok THEN RefContent
    ELSE RefCompile(RefTemplate.val, RefContent.val)

\* C27: the status sink is observational.  A stage whose display is not
\* registered receives no update at all, and create_email returns or raises
\* exactly what the recorded outcomes of the external calls determine, the
\* same with the displays registered and without them.
C27_SinkIsObservational ==
    /\ \A st \in Stages \ containers : sink[st] = <<>>
    /\ mainpc = "done" => result = RefResult

C27_Witness ==
    /\ containers = {}
    /\ MainReturned
    /\ sink = EmptySink
    /\ "renderTemplate" \in Range(calls)

\* C29: process_prompt, called with contacts and current_step = "welcome",
\* invokes create_email and leaves current_step = "feedback" when it ends,
\* whatever create_email did; current_step is "welcome" only before that
\* call has ended, so create_email is invoked at most once per session and
\* the prompts after a failed creation only add a message.
C29_OneCreationPerSession ==
    /\ assistant.created <= 1
    /\ assistant.current_step \in {"welcome", "feedback"}
    /\ assistant.current_step = "welcome" <=>
          (assistant.created = 0 \/ assistant.pc = "awaiting")
    /\ (assistant.pc = "idle" /\ assistant.created = 1) =>
          /\ mainpc = "done"
          /\ assistant.current_step = "feedback"
    /\ assistant.last = "feedback_message" => assistant.created = 1

C29_Witness ==
    /\ MainRaised
    /\ assistant.pc = "idle"
    /\ assistant.current_step = "feedback"
    /\ assistant.last = "feedback_message"
    /\ assistant.created = 1

====
